---- MODULE Spec2Model ----
(***************************************************************************)
(* A model of middleware-io (src/middleware-io/lib/index.js): the          *)
(* dispatcher `compose`, the invocation guard `wrapMiddlewareNextCall`,    *)
(* and the combinators `getCaughtMiddleware`, `getLazyMiddleware` and      *)
(* `getConcurrencyMiddleware`.                                             *)
(*                                                                         *)
(* A promise is modelled by its completion: a record [t, v] where t is     *)
(* "res" (resolved with v), "rej" (rejected with v) or "throw" (the call   *)
(* threw v synchronously and returned no promise at all).                  *)
(*                                                                         *)
(* User handlers are inputs.  A handler that calls next() suspends         *)
(* (awaits) before each call, so that control may pass to another          *)
(* invocation between any two calls; the dispatcher's own code, a handler  *)
(* that completes without calling next() and the promise reactions that    *)
(* follow a settlement run without suspension, inside one action.          *)
(***************************************************************************)
EXTENDS Integers, Sequences, FiniteSets, TLC

\* ------------------------------------------------------------------ bounds
MaxLen == 3
NInv == 2
NLazy == 3
MaxConc == 3
MaxSeq == 3
MaxUse == 3
MaxBuilders == 2
MaxHandlers == 1

Inv == 1..NInv
LInv == 1..NLazy

\* ------------------------------------------------------------------ inputs
\* The behaviours of the handlers handed to compose:
\*   pass       (context, next) => next()
\*   stop       (context, next) => Promise.resolve(own value)
\*   fail       (context, next) => { throw error; }        (FailModes "sync")
\*              async (context, next) => { throw error; }  (FailModes "async")
\*   twice      async (context, next) => { await next();
\*                                         if (context.bad) return next(); }
\*              (for any other context it calls next() once and resolves
\*              with undefined, as most handlers written with await do)
\*   caught     getCaughtMiddleware(errorHandler), errorHandler returns
\*   caughtFail getCaughtMiddleware(errorHandler), errorHandler throws
Kinds == {"pass", "stop", "fail", "twice", "caught", "caughtFail"}

\* A failing handler throws synchronously or returns a rejected promise.
FailModes == {"sync", "async"}

\* The terminal next supplied by the caller resolves or rejects when called.
TermKinds == {"ok", "reject"}

\* The context of an invocation, as far as a handler looks at it.
Ctx == {"good", "bad"}

\* What the environment decides during one step: how the terminal next
\* behaves if it is called, how a failing handler fails if one is run.
Env == [tk : TermKinds, mode : FailModes]
EnvDefault == [tk |-> "ok", mode |-> "sync"]

\* The environments that differ in the one decision a step asked for.
EnvFor(asked) ==
    IF asked = "tk" THEN {[EnvDefault EXCEPT !.tk = t] : t \in TermKinds}
    ELSE IF asked = "mode" THEN {[EnvDefault EXCEPT !.mode = m] : m \in FailModes}
    ELSE {EnvDefault}

Chains == UNION {[1..n -> Kinds] : n \in 0..MaxLen}

\* ------------------------------------------------------------------ values
Val(i) == <<"value", i>>
Err(i) == <<"error", i>>
HVal(i) == <<"handled", i>>
HErr(i) == <<"handler error", i>>
Undef == <<"undefined", 0>>
Multi == <<"next() called multiple times", 0>>
TermVal == <<"terminal value", 0>>
TermErr == <<"terminal error", 0>>

Res(x) == [t |-> "res", v |-> x]
Rej(x) == [t |-> "rej", v |-> x]
Throw(x) == [t |-> "throw", v |-> x]
NoC == [t |-> "none", v |-> Undef]

VARIABLES
    middlewares,  \* the array closed over by the composed handler (stage kinds)
    termKind,     \* per invocation: what its terminal next did ("none": not called)
    st,           \* per invocation: "idle", "running", "done"
    ctx,          \* per invocation: its context
    lastIndex,    \* per closure cell: the high-water mark of nextDispatch
    stack,        \* per invocation: the stages awaiting, outermost first
    outcome,      \* per invocation: completion of the composed handler's call
    runs,         \* history: per invocation and stage, times the stage was executed
    termCalls,    \* history: per invocation, times the terminal next was invoked
    order,        \* history: per invocation, indices in the order they were run
    hcalls,       \* history: per invocation, <<stage, error>> of each errorHandler call
    dbl,          \* history: per invocation, <<stage, failed>> of each repeated next()
    nmulti        \* history: per invocation, 'called multiple times' errors raised

composeVars == <<middlewares, termKind, st, ctx, lastIndex, stack, outcome,
                 runs, termCalls, order, hcalls, dbl, nmulti>>

\* getLazyMiddleware(factory): one lazy-wrapped instance and its invocations
VARIABLES
    lzMiddleware,    \* `let middleware`: 0 is undefined, h >= 1 a resolved handler
    lzPc,            \* per invocation: "idle", "factory", "delegated", "failed", "done"
    lzPending,       \* per invocation: the handler its factory call resolves with
    lzFactoryCalls,  \* history: times factory was called
    lzUsed           \* history: per invocation, the handler it delegated to (0: none)

lazyVars == <<lzMiddleware, lzPc, lzPending, lzFactoryCalls, lzUsed>>

\* getConcurrencyMiddleware(middlewares): one invocation of the combinator
VARIABLES
    cHandlers,  \* the handlers of the set (their behaviours)
    cSt,        \* the combinator: "idle", "waiting", "resolved", "rejected"
    cErr,       \* the handler whose error rejected the combinator (0: none)
    hPc,        \* per handler: "idle", "running", "called", "resolved", "rejected"
    hCalled,    \* per handler: `called` of its wrapMiddlewareNextCall
    cNext       \* history: times the outer next was invoked

concVars == <<cHandlers, cSt, cErr, hPc, hCalled, cNext>>

\* getBeforeMiddleware, getAfterMiddleware, getEnforceMiddleware and the
\* Composer methods that append them: one invocation of the handler built
VARIABLES
    gVia,     \* the function that built the handler
    gStages,  \* the handlers in the order the built handler runs them
    gKind,    \* per argument: the behaviour of the handler passed for it
    gSt,      \* the built handler: "idle", "running", "resolved", "rejected"
    gPos,     \* the stage being run (0: none)
    gPc,      \* the stage being run: "idle", "running", "called", "called2", "done"
    gCalled,  \* `called` of the wrapMiddlewareNextCall running the stage
    gNext,    \* history: times the chain's next was invoked
    gLog      \* history: <<"start" | "call" | "end", argument, detail>>

gateVars == <<gVia, gStages, gKind, gSt, gPos, gPc, gCalled, gNext, gLog>>

\* The Composer class and compose() called on an array: the objects created
VARIABLES
    heap,     \* the arrays alive, by address: heap[a] is the content of array a
    bArr,     \* per Composer object: the address held by its this.middlewares
    hnd,      \* per composed handler: what its closure captured
    nUse,     \* the functions passed to use() so far
    own,      \* history: per Composer, its content at creation and its own appends
    hExpect,  \* history: per composed handler, the sequence it was composed from
    ran,      \* history: per composed handler, the handlers its last run executed
    lastCompose  \* history: the last compose(array): its argument and how it ended

builderVars == <<heap, bArr, hnd, nUse, own, hExpect, ran, lastCompose>>

\* getTapMiddleware, getForkMiddleware, getOptionalMiddleware and
\* getFilterMiddleware: one invocation of the handler built around h
VARIABLES
    sVia,       \* the function that built the handler: "tap", "fork", "optional", "filter"
    sKind,      \* the behaviour of h
    sCond,      \* the condition of optional / filter: its form and its value
    sNextKind,  \* what the chain's next does when invoked: "ok", "reject"
    sSt,        \* the built handler: "idle", "running", "resolved", "rejected"
    sPc,        \* what the built handler awaits: "idle", "cond", "h", "next", "done"
    shSt,       \* h: "idle", "scheduled", "running", "awaiting", "called", "resolved", "rejected"
    shCalls,    \* times h has called the continuation it was given
    snSt,       \* the promise of the chain's next: "idle", "pending", "resolved", "rejected"
    sNext,      \* history: times the chain's next was invoked
    sLog        \* history: <<"schedule" | "start" | "call" | "end", who, detail>>

snipVars == <<sVia, sKind, sCond, sNextKind, sSt, sPc, shSt, shCalls, snSt, sNext, sLog>>

otherVars == <<gateVars, builderVars, snipVars>>

vars == <<composeVars, lazyVars, concVars, otherVars>>

\* ------------------------------------------------------------ the dispatcher
N == Len(middlewares)

\* middlewares[index], JavaScript's index starting at 0.
KindAt(index) == middlewares[index + 1]

\* `twice` repeats its next() only for a context that asks for it.
EffKind(k, cx) == IF k = "twice" /\ cx = "good" THEN "observe" ELSE k

\* `let lastIndex = -1` is created by each call of the composed handler:
\* invocation v owns cell v.
SlotShared(v) == 1
Slot(v) == v

\* if (index <= lastIndex)
SupersededNever(index, last) == FALSE
Superseded(index, last) == index <= last

\* if (!middleware): no handler at this index
HasMiddleware(index) == index < N

\* () => nextDispatch(index + 1)
SuccessorSkip(index) == index + 2
Successor(index) == index + 1

\* try { return Promise.resolve(middleware(...)) } catch (error) { return Promise.reject(error) }
DispatchResultDropped(c) == IF c.t = "res" THEN Res(Undef) ELSE c
DispatchResult(c) == IF c.t = "throw" THEN Rej(c.v) ELSE c

\* length 1: (context, next) => Promise.resolve(middleware(context, next))
SingleResult(c) == c

StageResult(c) == IF N = 1 THEN SingleResult(c) ELSE DispatchResult(c)

\* return next(): the terminal next
TermResult(tk) == IF tk = "ok" THEN Res(TermVal) ELSE Rej(TermErr)

\* getCaughtMiddleware: catch (error) { return errorHandler(context, error); }
CaughtOnErrorDropped(k, idx) == IF k = "caught" THEN Res(Undef) ELSE Rej(HErr(idx))
CaughtOnError(k, idx) == IF k = "caught" THEN Res(HVal(idx)) ELSE Rej(HErr(idx))

\* The promise reactions that follow the settlement c of the call awaited by
\* the innermost stage of stk: every stage that thereby completes settles
\* its own promise in turn, until a stage goes on to call next() again or
\* the composed handler's promise settles.
RECURSIVE Deliver(_, _, _, _)
Deliver(stk, c, hc, cx) ==
    IF stk = <<>> THEN [stack |-> <<>>, out |-> c, hc |-> hc]
    ELSE
      LET f == stk[Len(stk)]
          rest == SubSeq(stk, 1, Len(stk) - 1)
          k == EffKind(KindAt(f.idx), cx)
      IN  CASE k = "pass" -> Deliver(rest, StageResult(c), hc, cx)
            [] k = "observe" ->
                 Deliver(rest, StageResult(IF c.t = "res" THEN Res(Undef) ELSE c), hc, cx)
            [] k = "twice" ->
                 IF f.pc = "await1" /\ c.t = "res"
                 THEN [stack |-> Append(rest, [f EXCEPT !.pc = "again"]),
                       out |-> NoC, hc |-> hc]
                 ELSE Deliver(rest, StageResult(c), hc, cx)
            [] k \in {"caught", "caughtFail"} ->
                 IF c.t = "res"
                 THEN Deliver(rest, StageResult(Res(Undef)), hc, cx)
                 ELSE Deliver(rest, StageResult(CaughtOnError(k, f.idx)),
                              Append(hc, <<f.idx, c.v>>), cx)
            [] OTHER -> Deliver(rest, StageResult(c), hc, cx)

\* The state of invocation v as a record.
Snapshot(v) ==
    [last |-> lastIndex[Slot(v)], stack |-> stack[v], out |-> outcome[v],
     runs |-> runs[v], term |-> termCalls[v], order |-> order[v],
     hc |-> hcalls[v], nmulti |-> nmulti[v], tk |-> termKind[v], failed |-> FALSE,
     asked |-> "nothing"]

\* What a handler that does not call next() completes with.
OwnResult(k, index, mode) ==
    IF k = "stop" THEN Res(Val(index))
    ELSE IF mode = "sync" THEN Throw(Err(index)) ELSE Rej(Err(index))

\* Running the handler at index for the caller stk: a handler that does
\* not call next() completes at once, any other starts and suspends.
RunStage(s, index, stk, cx, e) ==
    LET s1 == [s EXCEPT !.runs[index] = @ + 1, !.order = Append(@, index)]
        k == KindAt(index)
    IN  IF k \in {"stop", "fail"}
        THEN LET d == Deliver(stk, StageResult(OwnResult(k, index, e.mode)), s.hc, cx)
             IN  [s1 EXCEPT !.stack = d.stack, !.out = d.out, !.hc = d.hc,
                            !.asked = IF k = "fail" THEN "mode" ELSE @]
        ELSE [s1 EXCEPT !.stack = Append(stk, [idx |-> index, pc |-> "start"])]

\* Invoking the terminal next for the caller stk.
RunTerminal(s, stk, cx, e) ==
    LET d == Deliver(stk, TermResult(e.tk), s.hc, cx)
    IN  [s EXCEPT !.term = @ + 1, !.order = Append(@, N), !.tk = e.tk, !.asked = "tk",
                  !.stack = d.stack, !.out = d.out, !.hc = d.hc]

\* nextDispatch(index), called with the stages of stk awaiting its promise.
NextDispatch(s, index, stk, cx, e) ==
    IF Superseded(index, s.last)
    THEN LET d == Deliver(stk, Rej(Multi), s.hc, cx)
         IN  [s EXCEPT !.stack = d.stack, !.out = d.out, !.hc = d.hc,
                       !.nmulti = @ + 1, !.failed = TRUE]
    ELSE LET s1 == [s EXCEPT !.last = index]
         IN  IF ~HasMiddleware(index)
             THEN RunTerminal(s1, stk, cx, e)
             ELSE RunStage(s1, index, stk, cx, e)

\* The composed handler called with (context, next).
Composed(s, cx, e) ==
    IF N = 0 THEN RunTerminal(s, <<>>, cx, e)
    ELSE IF N = 1 THEN RunStage(s, 0, <<>>, cx, e)
    ELSE NextDispatch([s EXCEPT !.last = -1], 0, <<>>, cx, e)

\* The continuation handed to the stage of frame f, called with stk awaiting.
Continuation(s, f, stk, cx, e) ==
    IF N = 1 THEN RunTerminal(s, stk, cx, e)
    ELSE NextDispatch(s, Successor(f.idx), stk, cx, e)

\* Writing a record of invocation v back to the variables.
Commit(v, s, cx) ==
    /\ lastIndex' = IF N >= 2 THEN [lastIndex EXCEPT ![Slot(v)] = s.last] ELSE lastIndex
    /\ stack' = [stack EXCEPT ![v] = s.stack]
    /\ outcome' = [outcome EXCEPT ![v] = s.out]
    /\ st' = [st EXCEPT ![v] = IF s.out = NoC THEN "running" ELSE "done"]
    /\ runs' = [runs EXCEPT ![v] = s.runs]
    /\ termCalls' = [termCalls EXCEPT ![v] = s.term]
    /\ order' = [order EXCEPT ![v] = s.order]
    /\ hcalls' = [hcalls EXCEPT ![v] = s.hc]
    /\ nmulti' = [nmulti EXCEPT ![v] = s.nmulti]
    /\ ctx' = [ctx EXCEPT ![v] = cx]
    /\ termKind' = [termKind EXCEPT ![v] = s.tk]

\* ----------------------------------------------------------------- actions
ComposeStart ==
    /\ termKind = [v \in Inv |-> "none"]
    /\ st = [v \in Inv |-> "idle"]
    /\ ctx = [v \in Inv |-> "good"]
    /\ lastIndex = [v \in Inv |-> -1]
    /\ stack = [v \in Inv |-> <<>>]
    /\ outcome = [v \in Inv |-> NoC]
    /\ runs = [v \in Inv |-> [i \in 0..MaxLen |-> 0]]
    /\ termCalls = [v \in Inv |-> 0]
    /\ order = [v \in Inv |-> <<>>]
    /\ hcalls = [v \in Inv |-> <<>>]
    /\ dbl = [v \in Inv |-> {}]
    /\ nmulti = [v \in Inv |-> 0]

LazyStart ==
    /\ lzMiddleware = 0
    /\ lzPc = [v \in LInv |-> "idle"]
    /\ lzPending = [v \in LInv |-> 0]
    /\ lzFactoryCalls = 0
    /\ lzUsed = [v \in LInv |-> 0]

ConcStart ==
    /\ cSt = "idle"
    /\ cErr = 0
    /\ hPc = [i \in 1..MaxConc |-> "idle"]
    /\ hCalled = [i \in 1..MaxConc |-> FALSE]
    /\ cNext = 0

GateStart ==
    /\ gSt = "idle"
    /\ gPos = 0
    /\ gPc = "idle"
    /\ gCalled = FALSE
    /\ gNext = 0
    /\ gLog = <<>>

\* No combinator-built handler is under observation.
GateNone ==
    /\ gVia = "none" /\ gStages = <<>> /\ gKind = <<>>
    /\ GateStart

\* No Composer and no composed handler exists yet.
BuilderStart ==
    /\ heap = <<>>
    /\ bArr = <<>>
    /\ hnd = <<>>
    /\ nUse = 0
    /\ own = <<>>
    /\ hExpect = <<>>
    /\ ran = <<>>
    /\ lastCompose = [seq |-> <<>>, threw |-> FALSE, returned |-> FALSE, called |-> FALSE]

SnipStart ==
    /\ sSt = "idle"
    /\ sPc = "idle"
    /\ shSt = "idle"
    /\ shCalls = 0
    /\ snSt = "idle"
    /\ sNext = 0
    /\ sLog = <<>>

\* No tap, fork, optional or filter handler is under observation.
SnipNone ==
    /\ sVia = "none" /\ sKind = "halt" /\ sNextKind = "ok"
    /\ sCond = [form |-> "static", value |-> "true"]
    /\ SnipStart

OthersNone == GateNone /\ BuilderStart /\ SnipNone

\* A composed handler over any chain of at most MaxLen handlers.
Init ==
    /\ middlewares \in Chains
    /\ ComposeStart
    /\ LazyStart
    /\ cHandlers = <<>> /\ ConcStart
    /\ OthersNone

\* The contexts that make a difference to the handlers of the chain.
Contexts == IF \E i \in 1..N : middlewares[i] = "twice" THEN Ctx ELSE {"good"}

\* The caller invokes the composed handler with a fresh context; the
\* invocations are numbered in the order in which they are made.
Invoke(v) ==
    /\ st[v] = "idle"
    /\ \A w \in Inv : w < v => st[w] # "idle"
    /\ \E cx \in Contexts :
         \E d \in {Composed(Snapshot(v), cx, EnvDefault)} :
            \E e \in EnvFor(d.asked) :
               \E s \in {IF e = EnvDefault THEN d ELSE Composed(Snapshot(v), cx, e)} :
                  Commit(v, s, cx)
    /\ UNCHANGED <<middlewares, dbl, lazyVars, concVars, otherVars>>

\* The innermost stage calls its continuation.
CallNext(v) ==
    /\ st[v] = "running"
    /\ stack[v] # <<>>
    /\ LET stk == stack[v]
           f == stk[Len(stk)]
           k == EffKind(KindAt(f.idx), ctx[v])
           again == f.pc = "again"
           waiting == [f EXCEPT !.pc = IF again THEN "await2" ELSE "await1"]
           callers == Append(SubSeq(stk, 1, Len(stk) - 1), waiting)
       IN  /\ f.pc \in {"start", "again"}
           /\ k \in {"pass", "observe", "twice", "caught", "caughtFail"}
           /\ \E d \in {Continuation(Snapshot(v), f, callers, ctx[v], EnvDefault)} :
                \E e \in EnvFor(d.asked) :
                   \E s \in {IF e = EnvDefault THEN d
                             ELSE Continuation(Snapshot(v), f, callers, ctx[v], e)} :
                      /\ Commit(v, s, ctx[v])
                      /\ dbl' = [dbl EXCEPT ![v] =
                                   IF again THEN @ \cup {<<f.idx, s.failed>>} ELSE @]
    /\ UNCHANGED <<middlewares, lazyVars, concVars, otherVars>>

Next == \E v \in Inv : Invoke(v) \/ CallNext(v)

Spec == Init /\ [][Next]_vars

\* ------------------------------------------------------- getLazyMiddleware
\* if (middleware === undefined)
IsUndefined(m) == m = 0

\* factory(context): every call of the factory builds a handler of its own.
FactoryResult(calls) == calls

InitLazy ==
    /\ middlewares = <<>> /\ ComposeStart
    /\ LazyStart
    /\ cHandlers = <<>> /\ ConcStart
    /\ OthersNone

\* The lazy handler is called: with no handler cached it calls the factory
\* and awaits it, otherwise it delegates to the cached handler.
LazyInvoke(v) ==
    /\ lzPc[v] = "idle"
    /\ \A w \in LInv : w < v => lzPc[w] # "idle"
    /\ IF IsUndefined(lzMiddleware)
       THEN /\ lzFactoryCalls' = lzFactoryCalls + 1
            /\ lzPending' = [lzPending EXCEPT ![v] = FactoryResult(lzFactoryCalls + 1)]
            /\ lzPc' = [lzPc EXCEPT ![v] = "factory"]
            /\ UNCHANGED <<lzMiddleware, lzUsed>>
       ELSE /\ lzUsed' = [lzUsed EXCEPT ![v] = lzMiddleware]
            /\ lzPc' = [lzPc EXCEPT ![v] = "delegated"]
            /\ UNCHANGED <<lzMiddleware, lzPending, lzFactoryCalls>>
    /\ UNCHANGED <<composeVars, concVars, otherVars>>

\* The factory's promise resolves: middleware = await factory(context);
\* return middleware(context, next).
FactoryResolve(v) ==
    /\ lzPc[v] = "factory"
    /\ lzMiddleware' = lzPending[v]
    /\ lzUsed' = [lzUsed EXCEPT ![v] = lzMiddleware']
    /\ lzPc' = [lzPc EXCEPT ![v] = "delegated"]
    /\ UNCHANGED <<lzPending, lzFactoryCalls, composeVars, concVars, otherVars>>

\* The factory's promise rejects: the await throws and nothing is cached.
FactoryReject(v) ==
    /\ lzPc[v] = "factory"
    /\ lzPc' = [lzPc EXCEPT ![v] = "failed"]
    /\ UNCHANGED <<lzMiddleware, lzPending, lzFactoryCalls, lzUsed, composeVars, concVars, otherVars>>

\* The handler delegated to settles.
LazySettle(v) ==
    /\ lzPc[v] = "delegated"
    /\ lzPc' = [lzPc EXCEPT ![v] = "done"]
    /\ UNCHANGED <<lzMiddleware, lzPending, lzFactoryCalls, lzUsed, composeVars, concVars, otherVars>>

NextLazy ==
    \E v \in LInv : LazyInvoke(v) \/ FactoryResolve(v) \/ FactoryReject(v) \/ LazySettle(v)

SpecLazy == InitLazy /\ [][NextLazy]_vars

\* ------------------------------------------------ getConcurrencyMiddleware
\* The behaviours of the handlers handed to the combinator:
\*   cont      async (context, next) => { await next(); }
\*   halt      async (context, next) => {}
\*   fail      async (context, next) => { throw error; }
\*   contFail  async (context, next) => { await next(); throw error; }
\*   twice     async (context, next) => { await next(); await next(); }
CKinds == {"cont", "halt", "fail", "contFail", "twice"}

M == Len(cHandlers)

\* concurrencies.every(Boolean)
Some(flags) == \E i \in DOMAIN flags : flags[i]
Every(flags) == \A i \in DOMAIN flags : flags[i]

\* Promise.all(...) rejects as soon as one of its promises rejects.
AllWaits(state) == state
AllRejects(state) == IF state = "waiting" THEN "rejected" ELSE state

InitConc ==
    /\ middlewares = <<>> /\ ComposeStart
    /\ LazyStart
    /\ cHandlers \in UNION {[1..n -> CKinds] : n \in 0..MaxConc}
    /\ ConcStart
    /\ OthersNone

\* The combinator is called: middlewares.map(...) starts every handler
\* through wrapMiddlewareNextCall, and the combinator awaits Promise.all.
ConcInvoke ==
    /\ cSt = "idle"
    /\ cSt' = "waiting"
    /\ hPc' = [i \in 1..MaxConc |-> IF i <= M THEN "running" ELSE "idle"]
    /\ UNCHANGED <<cHandlers, cErr, hCalled, cNext, composeVars, lazyVars, otherVars>>

\* Handler i calls the continuation wrapMiddlewareNextCall gave it: the
\* first call sets `called`, a later one throws, which rejects the handler.
HandlerCallNext(i) ==
    /\ i <= M
    /\ \/ hPc[i] = "running" /\ cHandlers[i] \in {"cont", "contFail", "twice"}
       \/ hPc[i] = "called" /\ cHandlers[i] = "twice"
    /\ IF hCalled[i]
       THEN /\ hPc' = [hPc EXCEPT ![i] = "rejected"]
            /\ cSt' = AllRejects(cSt)
            /\ cErr' = IF cSt = "waiting" THEN i ELSE cErr
            /\ UNCHANGED hCalled
       ELSE /\ hCalled' = [hCalled EXCEPT ![i] = TRUE]
            /\ hPc' = [hPc EXCEPT ![i] = "called"]
            /\ UNCHANGED <<cSt, cErr>>
    /\ UNCHANGED <<cHandlers, cNext, composeVars, lazyVars, otherVars>>

\* Handler i completes: its wrapMiddlewareNextCall resolves with `called`,
\* or rejects with the handler's error.
HandlerSettle(i) ==
    /\ i <= M
    /\ \/ hPc[i] = "running" /\ cHandlers[i] \in {"halt", "fail"}
       \/ hPc[i] = "called" /\ cHandlers[i] \in {"cont", "contFail"}
    /\ IF cHandlers[i] \in {"fail", "contFail"}
       THEN /\ hPc' = [hPc EXCEPT ![i] = "rejected"]
            /\ cSt' = AllRejects(cSt)
            /\ cErr' = IF cSt = "waiting" THEN i ELSE cErr
       ELSE /\ hPc' = [hPc EXCEPT ![i] = "resolved"]
            /\ UNCHANGED <<cSt, cErr>>
    /\ UNCHANGED <<cHandlers, hCalled, cNext, composeVars, lazyVars, otherVars>>

\* Promise.all has resolved: if (concurrencies.every(Boolean)) return next().
ConcContinue ==
    /\ cSt = "waiting"
    /\ \A i \in 1..M : hPc[i] = "resolved"
    /\ cNext' = IF Every([i \in 1..M |-> hCalled[i]]) THEN cNext + 1 ELSE cNext
    /\ cSt' = "resolved"
    /\ UNCHANGED <<cHandlers, cErr, hPc, hCalled, composeVars, lazyVars, otherVars>>

NextConc ==
    \/ ConcInvoke
    \/ ConcContinue
    \/ \E i \in 1..MaxConc : HandlerCallNext(i) \/ HandlerSettle(i)

SpecConc == InitConc /\ [][NextConc]_vars

\* ------------------------------ getBeforeMiddleware / After / Enforce, Composer
coreVars == <<composeVars, lazyVars, concVars>>

\* No composed, lazy or concurrent handler is under observation.
CoreNone ==
    /\ middlewares = <<>> /\ ComposeStart
    /\ LazyStart
    /\ cHandlers = <<>> /\ ConcStart

\* The handlers a caller has at hand, named after the role the caller means
\* them to play.
Roles == {"beforeH", "h", "afterH"}

\* Each function returns a handler that runs its arguments one after the
\* other: all but the last through wrapMiddlewareNextCall, the last with the
\* chain's next. The handler is modelled by that order, read off the
\* function's body.
getBeforeSwapped(beforeMiddleware, middleware) == <<middleware, beforeMiddleware>>
getBeforeMiddleware(beforeMiddleware, middleware) == <<beforeMiddleware, middleware>>
getAfterMiddleware(middleware, afterMiddleware) == <<middleware, afterMiddleware>>
getEnforceMiddleware(beforeMiddleware, middleware, afterMiddleware) ==
    <<beforeMiddleware, middleware, afterMiddleware>>

\* Composer.before / after / enforce: this.use(get...Middleware(...))
ComposerBefore(beforeMiddleware, middleware) ==
    getBeforeMiddleware(middleware, beforeMiddleware)
ComposerAfter(middleware, afterMiddleware) ==
    getAfterMiddleware(middleware, afterMiddleware)
ComposerEnforce(beforeMiddleware, middleware, afterMiddleware) ==
    getEnforceMiddleware(middleware, beforeMiddleware, afterMiddleware)

Entries == {"getBeforeMiddleware", "getAfterMiddleware", "getEnforceMiddleware",
            "Composer.before", "Composer.after", "Composer.enforce"}

\* The caller passes (beforeH, h), (h, afterH) or (beforeH, h, afterH).
Built(via) ==
    CASE via = "getBeforeMiddleware" -> getBeforeMiddleware("beforeH", "h")
      [] via = "getAfterMiddleware" -> getAfterMiddleware("h", "afterH")
      [] via = "getEnforceMiddleware" -> getEnforceMiddleware("beforeH", "h", "afterH")
      [] via = "Composer.before" -> ComposerBefore("beforeH", "h")
      [] via = "Composer.after" -> ComposerAfter("h", "afterH")
      [] via = "Composer.enforce" -> ComposerEnforce("beforeH", "h", "afterH")

RolesOf(stages) == {stages[i] : i \in DOMAIN stages}

\* The continuation stage pos is run with: the guard's flag-setting
\* continuation, or the chain's next for the last stage.
ContOf(pos) == IF pos = Len(gStages) THEN "real" ELSE "guard"

\* if (called) return middleware(context, next); / if (!beforeCalled) return;
GateAlwaysOpen(called) == TRUE
GateOpen(called) == called

\* One handler built by one of the functions, from handlers of every behaviour.
InitGate ==
    /\ CoreNone
    /\ gVia \in Entries
    /\ gStages = Built(gVia)
    /\ gKind \in [Roles -> CKinds]
    /\ \A r \in Roles \ RolesOf(gStages) : gKind[r] = "halt"
    /\ GateStart
    /\ BuilderStart
    /\ SnipNone

\* The built handler is called: its first stage starts.
GateInvoke ==
    /\ gSt = "idle"
    /\ gSt' = "running"
    /\ gPos' = 1
    /\ gPc' = "running"
    /\ gCalled' = FALSE
    /\ gLog' = Append(gLog, <<"start", gStages[1], ContOf(1)>>)
    /\ UNCHANGED <<gVia, gStages, gKind, gNext, coreVars, builderVars, snipVars>>

\* The running stage calls the continuation it was given. The guard's
\* continuation sets `called`, and throws when it is set already, which
\* rejects the stage, the guard and the built handler in turn; the chain's
\* next is simply invoked.
GateCallNext ==
    /\ gSt = "running"
    /\ LET r == gStages[gPos]
           k == gKind[r]
       IN  /\ \/ gPc = "running" /\ k \in {"cont", "contFail", "twice"}
              \/ gPc = "called" /\ k = "twice"
           /\ IF ContOf(gPos) = "guard"
              THEN IF gCalled
                   THEN /\ gSt' = "rejected"
                        /\ gPc' = "done"
                        /\ gLog' = gLog \o << <<"call", r, "guard">>, <<"end", r, "rejected">> >>
                        /\ UNCHANGED <<gCalled, gNext>>
                   ELSE /\ gCalled' = TRUE
                        /\ gPc' = "called"
                        /\ gLog' = Append(gLog, <<"call", r, "guard">>)
                        /\ UNCHANGED <<gSt, gNext>>
              ELSE /\ gNext' = gNext + 1
                   /\ gPc' = IF gPc = "running" THEN "called" ELSE "called2"
                   /\ gLog' = Append(gLog, <<"call", r, "real">>)
                   /\ UNCHANGED <<gSt, gCalled>>
    /\ UNCHANGED <<gVia, gStages, gKind, gPos, coreVars, builderVars, snipVars>>

\* The running stage completes. A failure rejects the built handler. A
\* guarded stage that resolves hands over to the next stage if `called` is
\* set and otherwise ends the built handler; the last stage's result is the
\* built handler's.
GateSettle ==
    /\ gSt = "running"
    /\ LET r == gStages[gPos]
           k == gKind[r]
       IN  /\ \/ gPc = "running" /\ k \in {"halt", "fail"}
              \/ gPc = "called" /\ k \in {"cont", "contFail"}
              \/ gPc = "called2"
           /\ IF k \in {"fail", "contFail"}
              THEN /\ gSt' = "rejected"
                   /\ gPc' = "done"
                   /\ gLog' = Append(gLog, <<"end", r, "rejected">>)
                   /\ UNCHANGED <<gPos, gCalled>>
              ELSE IF ContOf(gPos) = "guard" /\ GateOpen(gCalled)
              THEN /\ gPos' = gPos + 1
                   /\ gPc' = "running"
                   /\ gCalled' = FALSE
                   /\ gLog' = gLog \o << <<"end", r, "resolved">>,
                                         <<"start", gStages[gPos + 1], ContOf(gPos + 1)>> >>
                   /\ UNCHANGED gSt
              ELSE /\ gSt' = "resolved"
                   /\ gPc' = "done"
                   /\ gLog' = Append(gLog, <<"end", r, "resolved">>)
                   /\ UNCHANGED <<gPos, gCalled>>
    /\ UNCHANGED <<gVia, gStages, gKind, gNext, coreVars, builderVars, snipVars>>

NextGate == GateInvoke \/ GateCallNext \/ GateSettle

SpecGate == InitGate /\ [][NextGate]_vars

\* --------------------------------------------------- Composer, compose(array)
\* What may stand in an array handed to compose or be passed to use().
Fn(k) == <<"function", k>>
Callables == {Fn(k) : k \in 1..MaxUse}
NonCallables == {<<"undefined", 0>>, <<"object", 0>>}

\* The values of an array handed to compose: two functions, two other values.
Values == {Fn(1), Fn(2)} \cup NonCallables

\* typeof middleware
TypeOf(x) == x[1]

SeqsOver(S) == UNION {[1..n -> S] : n \in 0..MaxSeq}

\* assertMiddleware / assertMiddlewares: "TypeError" if the forEach throws.
AssertFirstOnly(seq) ==
    IF seq # <<>> /\ TypeOf(seq[1]) # "function" THEN "TypeError" ELSE "ok"
AssertMiddleware(x) == IF TypeOf(x) # "function" THEN "TypeError" ELSE "ok"
AssertMiddlewares(seq) ==
    IF \E i \in DOMAIN seq : AssertMiddleware(seq[i]) = "TypeError" THEN "TypeError" ELSE "ok"

\* [...this.middlewares]: the address of the array a new object holds, given
\* the address old of the original and the address fresh of the copy.
SharedArray(old, fresh) == old
ClonedArray(old, fresh) == fresh
LiveArray(old, fresh) == old
SnapshotArray(old, fresh) == fresh

\* The handler compose returns for the array at address a with content seq:
\* the length is looked at once, a single handler is taken out of the array
\* at once, and a longer array is read at every dispatch.
ComposedOf(a, seq) ==
    [arr |-> a, n |-> Len(seq), single |-> IF Len(seq) = 1 THEN seq[1] ELSE <<"undefined", 0>>]

\* get length()
Length(b) == Len(heap[bArr[b]])

\* The handlers a run of the composed handler c executes when each of them
\* calls its continuation.
Executed(c) ==
    IF c.n = 0 THEN <<>>
    ELSE IF c.n = 1 THEN <<c.single>>
    ELSE heap[c.arr]

InitBuilder ==
    /\ CoreNone
    /\ GateNone
    /\ BuilderStart
    /\ SnipNone

\* Composer.builder() / new Composer()
NewComposer ==
    /\ Len(bArr) < MaxBuilders
    /\ heap' = Append(heap, <<>>)
    /\ bArr' = Append(bArr, Len(heap) + 1)
    /\ own' = Append(own, <<>>)
    /\ UNCHANGED <<hnd, nUse, hExpect, ran, lastCompose, coreVars, gateVars, snipVars>>

\* b.use(x): x is a function not passed before, or not a function at all.
Use(b, x) ==
    /\ b \in DOMAIN bArr
    /\ nUse < MaxUse
    /\ x \in {Fn(nUse + 1)} \cup NonCallables
    /\ IF AssertMiddleware(x) = "TypeError"
       THEN UNCHANGED <<heap, own, nUse>>
       ELSE /\ heap' = [heap EXCEPT ![bArr[b]] = Append(@, x)]
            /\ own' = [own EXCEPT ![b] = Append(@, x)]
            /\ nUse' = nUse + 1
    /\ UNCHANGED <<bArr, hnd, hExpect, ran, lastCompose, coreVars, gateVars, snipVars>>

\* b.clone()
Clone(b) ==
    /\ b \in DOMAIN bArr
    /\ Len(bArr) < MaxBuilders
    /\ heap' = Append(heap, heap[bArr[b]])
    /\ bArr' = Append(bArr, ClonedArray(bArr[b], Len(heap) + 1))
    /\ own' = Append(own, heap[bArr[b]])
    /\ UNCHANGED <<hnd, nUse, hExpect, ran, lastCompose, coreVars, gateVars, snipVars>>

\* b.compose(): compose([...this.middlewares])
ComposerCompose(b) ==
    /\ b \in DOMAIN bArr
    /\ Len(hnd) < MaxHandlers
    /\ LET seq == heap[bArr[b]]
           a == SnapshotArray(bArr[b], Len(heap) + 1)
       IN  IF AssertMiddlewares(seq) = "TypeError"
           THEN UNCHANGED <<heap, hnd, hExpect, ran>>
           ELSE /\ heap' = Append(heap, seq)
                /\ hnd' = Append(hnd, ComposedOf(a, seq))
                /\ hExpect' = Append(hExpect, own[b])
                /\ ran' = Append(ran, [done |-> FALSE, seq |-> <<>>])
    /\ UNCHANGED <<bArr, nUse, own, lastCompose, coreVars, gateVars, snipVars>>

\* compose(seq) called on an array of the caller's, once: it throws, or
\* returns a handler that closes over the array.
ComposeArray(seq) ==
    /\ ~lastCompose.called
    /\ IF AssertMiddlewares(seq) = "TypeError"
       THEN /\ lastCompose' = [seq |-> seq, threw |-> TRUE, returned |-> FALSE, called |-> TRUE]
            /\ UNCHANGED <<heap, hnd, hExpect, ran>>
       ELSE /\ heap' = Append(heap, seq)
            /\ hnd' = Append(hnd, ComposedOf(Len(heap) + 1, seq))
            /\ hExpect' = Append(hExpect, seq)
            /\ ran' = Append(ran, [done |-> FALSE, seq |-> <<>>])
            /\ lastCompose' = [seq |-> seq, threw |-> FALSE, returned |-> TRUE, called |-> TRUE]
    /\ UNCHANGED <<bArr, nUse, own, coreVars, gateVars, snipVars>>

\* The composed handler c is invoked and runs to completion.
RunComposed(c) ==
    /\ c \in DOMAIN hnd
    /\ ran' = [ran EXCEPT ![c] = [done |-> TRUE, seq |-> Executed(hnd[c])]]
    /\ UNCHANGED <<heap, bArr, hnd, nUse, own, hExpect, lastCompose, coreVars, gateVars, snipVars>>

NextBuilder ==
    \/ NewComposer
    \/ \E b \in 1..MaxBuilders : \E x \in Callables \cup NonCallables : Use(b, x)
    \/ \E b \in 1..MaxBuilders : Clone(b) \/ ComposerCompose(b)
    \/ \E c \in 1..MaxHandlers : RunComposed(c)

SpecBuilder == InitBuilder /\ [][NextBuilder]_vars

\* compose called directly on any array of at most MaxSeq values.
NextArray ==
    \/ \E seq \in SeqsOver(Values) : ComposeArray(seq)
    \/ \E c \in 1..MaxHandlers : RunComposed(c)

SpecArray == InitBuilder /\ [][NextArray]_vars

\* ------------------ getTapMiddleware, getForkMiddleware, getBranchMiddleware
Snippets == {"tap", "fork", "optional", "filter"}

\* A condition is a value, a function returning a value, or a function
\* returning a promise of a value.
CondForms == {"static", "sync", "async"}
CondValues == {"true", "false", "undefined", "object"}

\* condition ? ... : ...
Truthy(value) == value \in {"true", "object"}

\* getOptionalMiddleware: branch(condition, h, skipMiddleware);
\* getFilterMiddleware: branch(condition, h, stopMiddleware)
FalseSwapped(via) == IF via = "optional" THEN "stop" ELSE "skip"
FalseMiddleware(via) == IF via = "optional" THEN "skip" ELSE "stop"

\* The continuation h is given: noopNext by tap and fork, the chain's next
\* by the branch that runs h.
HCont == IF sVia \in {"tap", "fork"} THEN "noop" ELSE "real"

\* noopNext: () => Promise.resolve(). Its effect on the number of times the
\* chain's next has been invoked.
PassNext(n) == n + 1
NoopNext(n) == n

\* setImmediate(middleware, context, noopNext): the state h is left in when
\* the call returns.
RunAtOnce(state) == "running"
SetImmediate(state) == "scheduled"

InitSnip ==
    /\ CoreNone
    /\ GateNone
    /\ BuilderStart
    /\ sVia \in Snippets
    /\ sKind \in CKinds
    /\ sNextKind \in TermKinds
    /\ sCond \in [form : CondForms, value : CondValues]
    /\ sVia \in {"tap", "fork"} => sCond = [form |-> "static", value |-> "true"]
    /\ SnipStart

\* The handler the branch selects is run: h with the chain's next,
\* skipMiddleware, which returns next(), or stopMiddleware, which resolves.
RunBranch(truthy) ==
    IF truthy
    THEN /\ shSt' = "running"
         /\ sPc' = "h"
         /\ sSt' = "running"
         /\ sLog' = Append(sLog, <<"start", "h", "real">>)
         /\ UNCHANGED <<sNext, snSt>>
    ELSE IF FalseMiddleware(sVia) = "skip"
    THEN /\ sNext' = sNext + 1
         /\ snSt' = "pending"
         /\ sPc' = "next"
         /\ sSt' = "running"
         /\ sLog' = Append(sLog, <<"call", "skip", "real">>)
         /\ UNCHANGED shSt
    ELSE /\ sSt' = "resolved"
         /\ sPc' = "done"
         /\ sLog' = Append(sLog, <<"end", "stop", "resolved">>)
         /\ UNCHANGED <<shSt, sNext, snSt>>

\* The built handler is called.
SnipInvoke ==
    /\ sSt = "idle"
    /\ CASE sVia = "tap" ->
              /\ sSt' = "running"
              /\ sPc' = "h"
              /\ shSt' = "running"
              /\ sLog' = Append(sLog, <<"start", "h", "noop">>)
              /\ UNCHANGED <<sNext, snSt>>
         [] sVia = "fork" ->
              /\ sSt' = "running"
              /\ sPc' = "next"
              /\ shSt' = SetImmediate(shSt)
              /\ sNext' = sNext + 1
              /\ snSt' = "pending"
              /\ sLog' = sLog \o << <<IF SetImmediate(shSt) = "running" THEN "start" ELSE "schedule",
                                      "h", "noop">>,
                                    <<"call", "fork", "real">> >>
         [] OTHER ->
              IF sCond.form = "static"
              THEN RunBranch(Truthy(sCond.value))
              ELSE /\ sSt' = "running"
                   /\ sPc' = "cond"
                   /\ sLog' = Append(sLog, <<"call", "condition", sCond.form>>)
                   /\ UNCHANGED <<shSt, sNext, snSt>>
    /\ UNCHANGED <<sVia, sKind, sCond, sNextKind, shCalls, coreVars, gateVars, builderVars>>

\* await condition(context) yields the condition's value.
CondSettle ==
    /\ sPc = "cond"
    /\ RunBranch(Truthy(sCond.value))
    /\ UNCHANGED <<sVia, sKind, sCond, sNextKind, shCalls, coreVars, gateVars, builderVars>>

\* A later turn of the event loop runs the handler setImmediate queued.
HStart ==
    /\ shSt = "scheduled"
    /\ shSt' = "running"
    /\ sLog' = Append(sLog, <<"start", "h", "noop">>)
    /\ UNCHANGED <<sVia, sKind, sCond, sNextKind, sSt, sPc, shCalls, snSt, sNext,
                   coreVars, gateVars, builderVars>>

\* h calls the continuation it was given.
HCallNext ==
    /\ \/ shSt = "running" /\ sKind \in {"cont", "contFail", "twice"}
       \/ shSt = "called" /\ sKind = "twice" /\ shCalls = 1
    /\ shCalls' = shCalls + 1
    /\ sLog' = Append(sLog, <<"call", "h", HCont>>)
    /\ IF HCont = "noop"
       THEN /\ sNext' = NoopNext(sNext)
            /\ shSt' = "called"
            /\ UNCHANGED snSt
       ELSE /\ sNext' = sNext + 1
            /\ snSt' = "pending"
            /\ shSt' = "awaiting"
    /\ UNCHANGED <<sVia, sKind, sCond, sNextKind, sSt, sPc, coreVars, gateVars, builderVars>>

\* The promise of the chain's next settles: whoever awaits or returned it
\* goes on with its result.
NextSettle ==
    /\ snSt = "pending"
    /\ LET result == IF sNextKind = "ok" THEN "resolved" ELSE "rejected"
       IN  /\ snSt' = result
           /\ IF shSt = "awaiting"
              THEN IF result = "rejected"
                   THEN /\ shSt' = "rejected"
                        /\ sSt' = "rejected"
                        /\ sPc' = "done"
                        /\ sLog' = Append(sLog, <<"end", "h", "rejected">>)
                   ELSE /\ shSt' = "called"
                        /\ UNCHANGED <<sSt, sPc, sLog>>
              ELSE /\ sSt' = result
                   /\ sPc' = "done"
                   /\ UNCHANGED <<shSt, sLog>>
    /\ UNCHANGED <<sVia, sKind, sCond, sNextKind, shCalls, sNext, coreVars, gateVars, builderVars>>

\* h completes. tap then returns next(), or rejects with h's error; fork
\* never looks at h; a branch that ran h settles as h does.
HSettle ==
    /\ \/ shSt = "running" /\ sKind \in {"halt", "fail"}
       \/ shSt = "called" /\ sKind \in {"cont", "contFail"}
       \/ shSt = "called" /\ sKind = "twice" /\ shCalls = 2
    /\ LET result == IF sKind \in {"fail", "contFail"} THEN "rejected" ELSE "resolved"
       IN  /\ shSt' = result
           /\ CASE sVia = "tap" /\ result = "resolved" ->
                     /\ sNext' = sNext + 1
                     /\ snSt' = "pending"
                     /\ sPc' = "next"
                     /\ sLog' = sLog \o << <<"end", "h", result>>, <<"call", "tap", "real">> >>
                     /\ UNCHANGED sSt
                [] sVia = "fork" ->
                     /\ sLog' = Append(sLog, <<"end", "h", result>>)
                     /\ UNCHANGED <<sSt, sPc, sNext, snSt>>
                [] OTHER ->
                     /\ sSt' = result
                     /\ sPc' = "done"
                     /\ sLog' = Append(sLog, <<"end", "h", result>>)
                     /\ UNCHANGED <<sNext, snSt>>
    /\ UNCHANGED <<sVia, sKind, sCond, sNextKind, shCalls, coreVars, gateVars, builderVars>>

NextSnip == SnipInvoke \/ CondSettle \/ HStart \/ HCallNext \/ NextSettle \/ HSettle

SpecSnip == InitSnip /\ [][NextSnip]_vars

\* ------------------------------------------------------------ the dispatcher's claims
\* Every handler of the chain calls its continuation exactly once in invocation v.
OnceChain(v) ==
    \A i \in 1..N : \/ middlewares[i] \in {"pass", "caught", "caughtFail"}
                    \/ middlewares[i] = "twice" /\ ctx[v] = "good"

\* <<0, 1, ..., N>>: every stage in ascending order, then the terminal next.
FullOrder == [i \in 1..(N + 1) |-> i - 1]

IsPrefix(a, b) == Len(a) <= Len(b) /\ \A i \in 1..Len(a) : a[i] = b[i]

\* The errorHandler calls made by the caught stage at index j.
HandlerCalls(v, j) == SelectSeq(hcalls[v], LAMBDA h : h[1] = j)

\* The stage at index i repeats its next() in invocation v.
Repeats(v, i) == middlewares[i + 1] = "twice" /\ ctx[v] = "bad"

\* C1: when every handler of the sequence (of any length n >= 0) calls its
\* continuation exactly once, an invocation runs stage 0, 1, ..., n-1 in
\* ascending order, each exactly once, and then the terminal next exactly
\* once, after the last stage has begun.
C1_AscendingExactlyOnce ==
    \A v \in Inv :
        OnceChain(v) =>
            /\ IsPrefix(order[v], FullOrder)
            /\ st[v] = "done" =>
                 /\ order[v] = FullOrder
                 /\ \A i \in 0..(N - 1) : runs[v][i] = 1
                 /\ termCalls[v] = 1

C1_Witness ==
    \E v \in Inv : /\ st[v] = "done" /\ OnceChain(v) /\ N = 3
                   /\ order[v] = <<0, 1, 2, 3>> /\ termCalls[v] = 1

\* C2: within one invocation of a composed handler of any length >= 1, a
\* second call of a stage's continuation fails with 'next() called multiple
\* times' and runs neither the following stage nor the terminal next a
\* second time.
C2_SecondCallFails ==
    \A v \in Inv : \A p \in dbl[v] :
        /\ p[2]
        /\ p[1] + 1 < N => runs[v][p[1] + 1] <= 1
        /\ p[1] + 1 = N => termCalls[v] <= 1

\* C3: if any stage calls its continuation twice during one invocation, the
\* composed handler's promise is rejected with 'next() called multiple
\* times', and no stage nor the terminal next is executed more than once.
C3_DoubleCallRejects ==
    \A v \in Inv :
        dbl[v] # {} =>
            /\ \A i \in 0..(N - 1) : runs[v][i] <= 1
            /\ termCalls[v] <= 1
            /\ st[v] = "done" => outcome[v] = Rej(Multi)

\* C4: the high-water mark is private to one invocation: an invocation in
\* which every stage calls its continuation exactly once runs its stages in
\* order and never receives 'next() called multiple times', whatever the
\* invocations interleaved with it do.
C4_CounterIsPrivate ==
    \A v \in Inv :
        OnceChain(v) =>
            /\ nmulti[v] = 0
            /\ outcome[v] # Rej(Multi)
            /\ IsPrefix(order[v], FullOrder)
            /\ st[v] = "done" => order[v] = FullOrder

C4_Witness ==
    /\ N >= 2
    /\ st[1] = "running" /\ ctx[1] = "bad" /\ nmulti[1] >= 1
    /\ st[2] = "done" /\ OnceChain(2) /\ order[2] = FullOrder

\* C5: for length 1 and length >= 2 alike, a stage that throws synchronously
\* never makes the call of the composed handler throw synchronously: the
\* call returns a promise rejected with the error.
C5_NeverThrowsSynchronously ==
    \A v \in Inv : outcome[v].t # "throw"

\* C6 as stated: if stage k completes without calling its continuation and
\* without failing, no stage above k is ever executed, the terminal next is
\* never invoked and the composed handler's promise resolves without error,
\* with stage 0's own result when k = 0.
C6_Original ==
    \A v \in Inv : \A k \in 0..(N - 1) :
        (middlewares[k + 1] = "stop" /\ runs[v][k] >= 1) =>
            /\ \A i \in (k + 1)..(N - 1) : runs[v][i] = 0
            /\ termCalls[v] = 0
            /\ st[v] = "done" =>
                 /\ outcome[v].t = "res"
                 /\ k = 0 => outcome[v] = Res(Val(0))

\* C6 as amended: if stage k completes without calling its continuation and
\* without failing, no stage above k is ever executed and the terminal next
\* is never invoked; the composed handler's promise resolves without error
\* (with stage 0's own result when k = 0) provided no earlier stage calls
\* its continuation again after stage k has completed.
C6_HaltsWithoutError ==
    \A v \in Inv : \A k \in 0..(N - 1) :
        (middlewares[k + 1] = "stop" /\ runs[v][k] >= 1) =>
            /\ \A i \in (k + 1)..(N - 1) : runs[v][i] = 0
            /\ termCalls[v] = 0
            /\ (st[v] = "done" /\ \A i \in 0..(k - 1) : ~Repeats(v, i)) =>
                 /\ outcome[v].t = "res"
                 /\ k = 0 => outcome[v] = Res(Val(0))

C6_Witness ==
    \E v \in Inv : /\ N = 3 /\ middlewares[2] = "stop" /\ middlewares[3] = "pass"
                   /\ st[v] = "done" /\ runs[v][1] = 1 /\ runs[v][2] = 0
                   /\ termCalls[v] = 0 /\ outcome[v] = Res(Val(1))

\* C7: in a chain whose stages each return the promise of their
\* continuation, an error raised (thrown synchronously or rejected) at stage
\* k makes the composed handler's promise reject with that error unless a
\* caught stage below k intercepts it; when the caught stage's errorHandler
\* fails, that failure is the rejection the caller sees.
C7_ErrorsReachTheCaller ==
    \A v \in Inv : \A k \in 0..(N - 1) :
        LET below == {j \in 0..(k - 1) : middlewares[j + 1] \in {"caught", "caughtFail"}}
        IN  ( /\ st[v] = "done"
              /\ middlewares[k + 1] = "fail" /\ runs[v][k] >= 1
              /\ \A i \in 0..(k - 1) : middlewares[i + 1] \in {"pass", "caught", "caughtFail"} )
            => /\ below = {} => outcome[v] = Rej(Err(k))
               /\ \A j \in below :
                    (below = {j} /\ middlewares[j + 1] = "caughtFail")
                        => outcome[v] = Rej(HErr(j))

\* C8 as stated: when caught(handler) is a stage of a composed chain and a
\* downstream stage rejects with E, handler is invoked exactly once with
\* (context, E) and the composed handler's promise resolves with handler's
\* return value.
C8_Original ==
    \A v \in Inv : \A j \in 0..(N - 1) : \A k \in (j + 1)..(N - 1) :
        ( /\ st[v] = "done"
          /\ middlewares[j + 1] = "caught"
          /\ middlewares[k + 1] = "fail" /\ runs[v][k] >= 1 )
        => /\ HandlerCalls(v, j) = << <<j, Err(k)>> >>
           /\ outcome[v] = Res(HVal(j))

\* C8 as amended: when caught(handler) is stage j of a composed chain, a
\* downstream stage k rejects with E and every stage between them passes the
\* rejection on, handler is invoked exactly once with (context, E); if
\* moreover every stage before j returns the promise of its continuation,
\* the composed handler's promise resolves with handler's return value.
C8_CaughtHandles ==
    \A v \in Inv : \A j \in 0..(N - 1) : \A k \in (j + 1)..(N - 1) :
        ( /\ st[v] = "done"
          /\ middlewares[j + 1] = "caught"
          /\ middlewares[k + 1] = "fail" /\ runs[v][k] >= 1
          /\ \A i \in (j + 1)..(k - 1) : middlewares[i + 1] \in {"pass", "twice"} )
        => /\ HandlerCalls(v, j) = << <<j, Err(k)>> >>
           /\ (\A i \in 0..(j - 1) : middlewares[i + 1] = "pass")
                => outcome[v] = Res(HVal(j))

C8_Witness ==
    \E v \in Inv : /\ middlewares = <<"pass", "caught", "fail">>
                   /\ st[v] = "done"
                   /\ hcalls[v] = << <<1, Err(2)>> >>
                   /\ outcome[v] = Res(HVal(1))

\* ----------------------------------------------------- the combinators' claims
\* C9: for one lazy-wrapped handler, over any interleaving of its
\* invocations (also those that start while the factory's promise is
\* pending), factory is called at most once and every invocation delegates
\* to the same resolved handler.
C9_FactoryRunsOnce ==
    (\A v \in LInv : lzPc[v] # "failed") =>
        /\ lzFactoryCalls <= 1
        /\ \A v, w \in LInv : (lzUsed[v] # 0 /\ lzUsed[w] # 0) => lzUsed[v] = lzUsed[w]

AllResolved == \A i \in 1..M : hPc[i] = "resolved"
AllCalled == \A i \in 1..M : hCalled[i]
ConcDone == cSt \in {"resolved", "rejected"}

\* C10 as stated: concurrency(handlers) invokes the outer next exactly once
\* if and only if every handler has settled without rejecting and every one
\* invoked its continuation, never before all have settled; and if a handler
\* settles without invoking its continuation the combinator resolves
\* without invoking the outer next.
C10_Original ==
    /\ cNext <= 1
    /\ cNext = 1 => (AllResolved /\ AllCalled)
    /\ (ConcDone /\ AllResolved /\ AllCalled) => cNext = 1
    /\ (ConcDone /\ \E i \in 1..M : hPc[i] = "resolved" /\ ~hCalled[i])
           => (cSt = "resolved" /\ cNext = 0)

\* C10 as amended: the outer next is invoked exactly once if and only if
\* every handler has settled without rejecting and every one invoked its
\* continuation, never before all have settled; if a handler settles
\* without invoking its continuation the outer next is never invoked, and
\* the combinator then resolves unless some handler rejects, in which case
\* it rejects.
C10_NextIffAllContinue ==
    /\ cNext <= 1
    /\ cNext = 1 => (AllResolved /\ AllCalled)
    /\ (ConcDone /\ AllResolved /\ AllCalled) => cNext = 1
    /\ (\E i \in 1..M : hPc[i] \in {"resolved", "rejected"} /\ ~hCalled[i])
           => /\ cNext = 0
              /\ ConcDone => (cSt = "rejected" <=> \E j \in 1..M : hPc[j] = "rejected")

C10_Witness ==
    /\ cHandlers = <<"cont", "cont", "cont">>
    /\ cSt = "resolved" /\ AllResolved /\ AllCalled /\ cNext = 1

RejectedHandlers == {i \in 1..M : hPc[i] = "rejected"}

\* C11: once a handler run by concurrency(handlers) has failed (rejected or
\* thrown synchronously, which the guard's async function turns into a
\* rejection), the combinator's promise is rejected with the error of the
\* handler that failed, at once and while siblings may still be in flight,
\* and the outer next is never invoked, in whatever order the handlers settle.
C11_RejectsAtOnce ==
    RejectedHandlers # {} =>
        /\ cSt = "rejected"
        /\ cErr \in RejectedHandlers
        /\ \A i \in 1..M : RejectedHandlers = {i} => cErr = i
        /\ cNext = 0

C11_Witness ==
    /\ cHandlers = <<"cont", "fail", "cont">>
    /\ hPc[2] = "rejected" /\ hPc[1] = "called" /\ hPc[3] = "running"
    /\ cSt = "rejected" /\ cErr = 2 /\ cNext = 0

\* ------------------------------------------------- the gating combinators' claims
Logged(e) == \E i \in DOMAIN gLog : gLog[i] = e
LoggedBefore(e, i) == \E j \in 1..(i - 1) : gLog[j] = e
StartsOf(r) == {i \in DOMAIN gLog : gLog[i][1] = "start" /\ gLog[i][2] = r}

\* later starts only after gate has completed having invoked its continuation.
GatedAfter(gate, later) ==
    \A i \in StartsOf(later) :
        /\ LoggedBefore(<<"call", gate, "guard">>, i)
        /\ LoggedBefore(<<"end", gate, "resolved">>, i)

\* If gate completes without invoking its continuation, none of the later
\* handlers nor the chain's next is run and the built handler resolves.
HaltsAt(gate, later) ==
    (Logged(<<"end", gate, "resolved">>) /\ ~Logged(<<"call", gate, "guard">>)) =>
        /\ \A r \in later : StartsOf(r) = {}
        /\ gNext = 0
        /\ gSt = "resolved"

\* Only the handler r is given, and so can invoke, the chain's next.
OnlyRealNext(r) ==
    \A i \in DOMAIN gLog : gLog[i][3] = "real" => gLog[i][2] = r

BeforeContract ==
    /\ gLog # <<>> => gLog[1] = <<"start", "beforeH", "guard">>
    /\ GatedAfter("beforeH", "h")
    /\ \A i \in StartsOf("h") : gLog[i][3] = "real"
    /\ OnlyRealNext("h")
    /\ HaltsAt("beforeH", {"h"})

EnforceContract ==
    /\ gLog # <<>> => gLog[1] = <<"start", "beforeH", "guard">>
    /\ GatedAfter("beforeH", "h")
    /\ GatedAfter("h", "afterH")
    /\ \A i \in StartsOf("h") : gLog[i][3] = "guard"
    /\ \A i \in StartsOf("afterH") : gLog[i][3] = "real"
    /\ OnlyRealNext("afterH")
    /\ HaltsAt("beforeH", {"h", "afterH"})
    /\ HaltsAt("h", {"afterH"})

\* C12: the handler built by before(beforeH, h) runs beforeH first; h runs,
\* with the chain's next, only if beforeH invoked its continuation and only
\* after beforeH has completed; if beforeH completes without invoking its
\* continuation, neither h nor the chain's next is ever run and the handler
\* resolves without error.
C12_BeforeRunsFirst == gVia = "getBeforeMiddleware" => BeforeContract

C12_Witness ==
    /\ gVia = "getBeforeMiddleware" /\ gSt = "resolved" /\ gNext = 1
    /\ gLog = << <<"start", "beforeH", "guard">>, <<"call", "beforeH", "guard">>,
                 <<"end", "beforeH", "resolved">>, <<"start", "h", "real">>,
                 <<"call", "h", "real">>, <<"end", "h", "resolved">> >>

\* C13: the handler built by enforce(beforeH, h, afterH) runs beforeH, h,
\* afterH strictly in that order: h starts only after beforeH completed
\* having invoked its continuation, afterH only after h completed having
\* invoked its continuation, only afterH receives the chain's next, and
\* when a gate completes without continuing, the later stages and the
\* chain's next never run and the handler resolves without error.
C13_EnforceInOrder == gVia = "getEnforceMiddleware" => EnforceContract

C13_Witness ==
    /\ gVia = "getEnforceMiddleware" /\ gSt = "resolved" /\ gNext = 1
    /\ gLog = << <<"start", "beforeH", "guard">>, <<"call", "beforeH", "guard">>,
                 <<"end", "beforeH", "resolved">>, <<"start", "h", "guard">>,
                 <<"call", "h", "guard">>, <<"end", "h", "resolved">>,
                 <<"start", "afterH", "real">>, <<"call", "afterH", "real">>,
                 <<"end", "afterH", "resolved">> >>

\* C14: the stage appended by Composer.before(beforeH, h) runs beforeH first
\* and h only if beforeH invoked its continuation, and the stage appended by
\* Composer.enforce(beforeH, h, afterH) runs beforeH, then h, then afterH,
\* each gated on the previous one continuing.
C14_BuilderMirrors ==
    /\ gVia = "Composer.before" => BeforeContract
    /\ gVia = "Composer.enforce" => EnforceContract

\* ------------------------------------------------ the Composer's and compose's claims
\* C15: after clone() the Composer and its copy hold independent sequences:
\* the copy starts with exactly the handlers the original had at the time of
\* clone(), and from then on the sequence and length of each of them (hence
\* the handler it later composes) is what it had at its creation followed
\* by the handlers appended to it alone, whatever is appended to the other.
C15_CloneIsIndependent ==
    \A b \in DOMAIN bArr :
        /\ heap[bArr[b]] = own[b]
        /\ Length(b) = Len(own[b])

C15_Witness ==
    /\ Len(bArr) = 2
    /\ heap[bArr[1]] = <<Fn(1), Fn(2)>> /\ own[1] = <<Fn(1), Fn(2)>>
    /\ heap[bArr[2]] = <<Fn(1), Fn(3)>> /\ own[2] = <<Fn(1), Fn(3)>>

\* C19: compose fails with a type error at composition time, returning no
\* handler and executing none, whenever at least one element of the
\* sequence is not callable, whatever its position and the sequence length.
C19_FailsFast ==
    (lastCompose.called /\ \E i \in DOMAIN lastCompose.seq : lastCompose.seq[i] \in NonCallables) =>
        /\ lastCompose.threw
        /\ ~lastCompose.returned
        /\ hnd = <<>>
        /\ ran = <<>>

C19_Witness ==
    /\ lastCompose.called /\ lastCompose.threw /\ hnd = <<>>
    /\ lastCompose.seq = <<Fn(1), Fn(2), <<"object", 0>> >>

\* C20: the handler returned by Composer.compose() runs the sequence the
\* Composer held at the time of the call, never a handler appended
\* afterwards, and compose() leaves the Composer's sequence and length
\* unchanged.
C20_ComposeSnapshots ==
    /\ \A c \in DOMAIN hnd : ran[c].done => ran[c].seq = hExpect[c]
    /\ \A b \in DOMAIN bArr : heap[bArr[b]] = own[b]

C20_Witness ==
    /\ Len(bArr) >= 1 /\ Len(hnd) = 1
    /\ hExpect[1] = <<Fn(1), Fn(2)>>
    /\ heap[bArr[1]] = <<Fn(1), Fn(2), Fn(3)>>
    /\ ran[1] = [done |-> TRUE, seq |-> <<Fn(1), Fn(2)>>]

\* ------------------------------------------------ tap, fork, optional, filter: claims
SLoggedBefore(e, i) == \E j \in 1..(i - 1) : sLog[j] = e
HStarts == {i \in DOMAIN sLog : sLog[i][1] = "start" /\ sLog[i][2] = "h"}
HEnded == shSt \in {"resolved", "rejected"}
SDone == sSt \in {"resolved", "rejected"}

\* C16 as stated: tap(h) invokes the chain's next exactly once on every
\* invocation, after h has completed, whether or not h called its no-op
\* continuation, and h calling its continuation never advances the chain.
C16_Original ==
    sVia = "tap" =>
        /\ sNext <= 1
        /\ sNext = 1 => HEnded
        /\ (HEnded \/ SDone) => sNext = 1

\* C16 as amended: tap(h) invokes the chain's next exactly once on every
\* invocation in which h completes without failing, after h has completed
\* and whether or not h called its no-op continuation; h calling its
\* continuation never advances the chain; if h fails, the handler rejects
\* and the chain's next is never invoked.
C16_TapContinuesAfterH ==
    sVia = "tap" =>
        /\ sNext <= 1
        /\ sNext = 1 <=> shSt = "resolved"
        /\ \A i \in DOMAIN sLog :
             sLog[i] = <<"call", "tap", "real">> => SLoggedBefore(<<"end", "h", "resolved">>, i)
        /\ shSt = "rejected" => (sSt = "rejected" /\ sNext = 0)
        /\ SDone => HEnded

C16_Witness ==
    /\ sVia = "tap" /\ sKind = "twice" /\ shCalls = 2
    /\ sSt = "resolved" /\ sNext = 1
    /\ sLog[Len(sLog)] = <<"call", "tap", "real">>

\* C17: fork(h) invokes the chain's next at once, before h has started; h
\* starts only on a later turn of the event loop; the fork stage settles as
\* the promise of next does, whatever h does: h failing or calling its no-op
\* continuation changes neither the result nor the progress of the chain.
C17_ForkDoesNotWait ==
    sVia = "fork" =>
        /\ sSt # "idle" => sNext = 1
        /\ \A i \in HStarts : SLoggedBefore(<<"call", "fork", "real">>, i)
        /\ sLog # <<>> => sLog[1] = <<"schedule", "h", "noop">>
        /\ sSt = "running" <=> snSt = "pending"
        /\ SDone => sSt = snSt

C17_Witness ==
    /\ sVia = "fork" /\ sKind = "contFail" /\ shSt = "rejected" /\ shCalls = 1
    /\ sSt = "resolved" /\ snSt = "resolved" /\ sNext = 1

\* C18: with a condition that is the static false, or a function that
\* returns or resolves to a falsy value, filter(condition, h) never executes
\* h and resolves without invoking next, and optional(condition, h) never
\* executes h but invokes next exactly once.
C18_FalsyCondition ==
    (sVia \in {"optional", "filter"} /\ ~Truthy(sCond.value)) =>
        /\ shSt = "idle" /\ HStarts = {}
        /\ sVia = "filter" =>
             /\ sNext = 0
             /\ sPc \notin {"idle", "cond"} => sSt = "resolved"
        /\ sVia = "optional" =>
             /\ sNext <= 1
             /\ sPc \notin {"idle", "cond"} => sNext = 1

C18_Witness ==
    /\ sVia = "optional" /\ sCond = [form |-> "async", value |-> "undefined"]
    /\ sSt = "resolved" /\ sNext = 1 /\ shSt = "idle"

\* --------------------------------------------------- the caught stage's claim
CaughtStages == {j \in 0..(N - 1) : middlewares[j + 1] \in {"caught", "caughtFail"}}

\* Something after stage j fails in invocation v: a stage fails, a stage
\* repeats its next(), or the terminal next rejects.
DownstreamFails(v, j) ==
    \/ \E k \in (j + 1)..(N - 1) :
          \/ middlewares[k + 1] = "fail" /\ runs[v][k] >= 1
          \/ Repeats(v, k) /\ runs[v][k] >= 1
    \/ termKind[v] = "reject"

\* The error e comes from after stage j in invocation v.
FromDownstream(v, j, e) ==
    \/ \E k \in (j + 1)..(N - 1) : e \in {Err(k), HErr(k)} /\ runs[v][k] >= 1
    \/ e = TermErr /\ termKind[v] = "reject"
    \/ e = Multi /\ \E k \in (j + 1)..(N - 1) : Repeats(v, k)

\* C21: a caught(errorHandler) stage invokes errorHandler at most once per
\* invocation and only with an error its own continuation rejected with:
\* when every stage after it and the terminal next succeed, errorHandler is
\* never invoked, and an error raised by a stage before the caught stage is
\* never passed to it.
C21_HandlerOnlyForDownstream ==
    \A v \in Inv :
        /\ \A i \in DOMAIN hcalls[v] : hcalls[v][i][1] \in CaughtStages
        /\ \A j \in CaughtStages :
             /\ Len(HandlerCalls(v, j)) <= 1
             /\ \A i \in DOMAIN HandlerCalls(v, j) :
                  FromDownstream(v, j, HandlerCalls(v, j)[i][2])
             /\ ~DownstreamFails(v, j) => HandlerCalls(v, j) = <<>>

C21_Witness ==
    \E v \in Inv :
        /\ middlewares = <<"twice", "caught", "pass">> /\ ctx[v] = "bad"
        /\ st[v] = "done" /\ outcome[v] = Rej(Multi)
        /\ runs[v][1] = 1 /\ termCalls[v] = 1
        /\ hcalls[v] = <<>>

====
